---- MODULE Spec2Model ----
(***************************************************************************)
(* Paginated fuzzy device-name resolution of the Particle MCP server:      *)
(* the Match Scorer (_fuzzy_match_score) and the Paginated Resolver        *)
(* (find_device_by_name) of src/endpoints/devices.py.                      *)
(*                                                                         *)
(* A Python str is a sequence of one-character strings, so that lower(),   *)
(* re.findall, split and the `in` substring test are computed character by *)
(* character.  A Python float score is an exact rational [num, den] in     *)
(* lowest terms.                                                           *)
(***************************************************************************)
EXTENDS Integers, Sequences, FiniteSets, TLC

(***************************************************************************)
(* Bounds of the model.                                                    *)
(***************************************************************************)
\* longest search string handed to the scorer in SpecScore
MaxQueryLen == 3
\* longest candidate name handed to the scorer in SpecScore
MaxNameLen == 2
\* most search names in a list handed to find_device_by_name
MaxQueries == 2
\* most devices in one page returned by the Device API
MaxPageLen == 1
\* the page index after which the scan gives up: 1000 in the code
\* (`if page > 1000: break`), scaled down so that the ceiling is reached
PageCeiling == 3

(***************************************************************************)
(* Characters and strings.                                                 *)
(***************************************************************************)
UpperCase == << "A", "B", "C", "D", "E", "F", "G", "H", "I", "J", "K", "L", "M",
                "N", "O", "P", "Q", "R", "S", "T", "U", "V", "W", "X", "Y", "Z" >>

LowerCase == << "a", "b", "c", "d", "e", "f", "g", "h", "i", "j", "k", "l", "m",
                "n", "o", "p", "q", "r", "s", "t", "u", "v", "w", "x", "y", "z" >>

Range(f) == { f[i] : i \in DOMAIN f }

\* the characters matched by the regular expression class \d
Digits == { "0", "1", "2", "3", "4", "5", "6", "7", "8", "9" }

\* the characters matched by the regular expression class \w
WordChars == Range(UpperCase) \cup Range(LowerCase) \cup Digits \cup { "_" }

\* the characters the strings of the model are drawn from: a stop word ("a"),
\* a letter in both cases, a digit, the part separator and a non-word character
Alphabet == { "a", "b", "B", "1", "_", " " }

\* every string over Alphabet of at most n characters
Strings(n) == UNION { [1..k -> Alphabet] : k \in 0..n }

\* str.lower() on one character
LowerChar(c) ==
    IF \E i \in DOMAIN UpperCase : UpperCase[i] = c
    THEN LowerCase[CHOOSE i \in DOMAIN UpperCase : UpperCase[i] = c]
    ELSE c

\* str.lower()
Lower(s) == [ i \in 1..Len(s) |-> LowerChar(s[i]) ]

\* `w in s` on two str values: w occurs in s as a contiguous substring
Contains(w, s) ==
    \E i \in 0..(Len(s) - Len(w)) : SubSeq(s, i + 1, i + Len(w)) = w

\* the length of the longest prefix of s made of characters of class
RunLen(s, class) ==
    IF \A i \in 1..Len(s) : s[i] \in class
    THEN Len(s)
    ELSE (CHOOSE i \in 1..Len(s) :
              /\ s[i] \notin class
              /\ \A j \in 1..(i - 1) : s[j] \in class) - 1

\* re.findall(r'[class]+', s): the maximal runs of characters of class, in order
RECURSIVE FindAll(_, _)
FindAll(s, class) ==
    IF s = << >> THEN << >>
    ELSE IF Head(s) \notin class THEN FindAll(Tail(s), class)
    ELSE LET n == RunLen(s, class)
         IN  << SubSeq(s, 1, n) >> \o FindAll(SubSeq(s, n + 1, Len(s)), class)

\* str.split(sep) for a one-character separator: "" splits to [""]
RECURSIVE Split(_, _)
Split(s, sep) ==
    IF \A i \in 1..Len(s) : s[i] # sep
    THEN << s >>
    ELSE LET i == CHOOSE k \in 1..Len(s) :
                      /\ s[k] = sep
                      /\ \A j \in 1..(k - 1) : s[j] # sep
         IN  << SubSeq(s, 1, i - 1) >> \o Split(SubSeq(s, i + 1, Len(s)), sep)

\* str.isdigit(): non-empty and all digits
IsDigit(w) == w # << >> /\ \A i \in 1..Len(w) : w[i] \in Digits

(***************************************************************************)
(* Scores: exact rationals in lowest terms.                                *)
(***************************************************************************)
RECURSIVE Gcd(_, _)
Gcd(a, b) == IF b = 0 THEN a ELSE Gcd(b, a % b)

Rat(n, d) == LET g == Gcd(n, d) IN [ num |-> n \div g, den |-> d \div g ]

Zero == Rat(0, 1)
One == Rat(1, 1)

RatAdd(x, y) == Rat(x.num * y.den + y.num * x.den, x.den * y.den)
RatDivInt(x, n) == Rat(x.num, x.den * n)
RatGT(x, y) == x.num * y.den > y.num * x.den
RatGE(x, y) == x.num * y.den >= y.num * x.den
RatMin(x, y) == IF RatGT(x, y) THEN y ELSE x

(***************************************************************************)
(* Match Scorer: _fuzzy_match_score(search_terms, device_name).            *)
(***************************************************************************)
common_words ==
    { << "d", "e", "v", "i", "c", "e" >>, << "i", "n" >>,
      << "p", "r", "o", "j", "e", "c", "t" >>, << "t", "h", "e" >>, << "a" >>,
      << "a", "n" >>, << "a", "n", "d" >>, << "o", "r" >>, << "o", "f" >>,
      << "f", "o", "r" >>, << "w", "i", "t", "h" >> }

\* mutant: the common words are not filtered out
search_words_unfiltered(search_lower) == FindAll(search_lower, WordChars)

\* the words of the lower-cased search string that are not common words
search_words(search_lower) ==
    SelectSeq(FindAll(search_lower, WordChars), LAMBDA word : word \notin common_words)

\* mutant: the digit-run rule is tried before the other two
WordCreditDigitRunFirst(word, name_lower) ==
    IF IsDigit(word) /\ word \in Range(FindAll(name_lower, Digits))
    THEN Rat(9, 10)
    ELSE IF Contains(word, name_lower)
    THEN One
    ELSE IF \E part \in Range(Split(name_lower, "_")) :
                Contains(word, part) \/ Contains(part, word)
    THEN Rat(7, 10)
    ELSE Zero

\* the credit one search word earns against the lower-cased device name:
\* the if / elif / elif chain of the scoring loop
WordCredit(word, name_lower) ==
    IF Contains(word, name_lower)
    THEN One
    ELSE IF \E part \in Range(Split(name_lower, "_")) :
                Contains(word, part) \/ Contains(part, word)
    THEN Rat(7, 10)
    ELSE IF IsDigit(word) /\ word \in Range(FindAll(name_lower, Digits))
    THEN Rat(9, 10)
    ELSE Zero

\* score after the loop over the first k search words
RECURSIVE SumCredits(_, _, _)
SumCredits(words, name_lower, k) ==
    IF k = 0 THEN Zero
    ELSE RatAdd(SumCredits(words, name_lower, k - 1), WordCredit(words[k], name_lower))

\* the amounts added to score in the loop, one per search word, in order
word_credits(terms, name) ==
    LET words == search_words(Lower(terms))
    IN  [ k \in 1..Len(words) |-> WordCredit(words[k], Lower(name)) ]

\* mutant: the device name is not lower-cased
fuzzy_match_score_name_case(terms, name) ==
    LET search_lower == Lower(terms)
        words == search_words(search_lower)
        looped == SumCredits(words, name, Len(words))
        total == IF search_lower = name THEN Rat(Len(words), 1) ELSE looped
    IN  IF words = << >>
        THEN Zero
        ELSE RatMin(RatDivInt(total, Len(words)), One)

\* mutant: the exact-match bonus is decided before the search words are looked at
fuzzy_match_score_bonus_first(terms, name) ==
    LET search_lower == Lower(terms)
        name_lower == Lower(name)
        words == search_words(search_lower)
        looped == SumCredits(words, name_lower, Len(words))
    IN  IF search_lower = name_lower
        THEN One
        ELSE IF words = << >>
             THEN Zero
             ELSE RatMin(RatDivInt(looped, Len(words)), One)

fuzzy_match_score(terms, name) ==
    LET search_lower == Lower(terms)
        name_lower == Lower(name)
        words == search_words(search_lower)
        max_possible_score == Len(words)
        looped == SumCredits(words, name_lower, Len(words))
        score == IF search_lower = name_lower
                 THEN Rat(max_possible_score, 1)
                 ELSE looped
    IN  IF words = << >>
        THEN Zero
        ELSE IF max_possible_score > 0
             THEN RatMin(RatDivInt(score, max_possible_score), One)
             ELSE Zero

(***************************************************************************)
(* Paginated Resolver: find_device_by_name(device_name).                   *)
(***************************************************************************)
VARIABLES
    pc,              \* "idle" | "fetch" (awaiting make_api_request) | "scan" | "done"
    device_names,    \* the list of search names
    return_single,   \* the argument was a str
    search_results,  \* dict: search name -> [best_match, best_score, found]
    page,            \* page index of the next request
    response,        \* the last response of make_api_request
    devices,         \* response.get("devices", [])
    device_idx,      \* position of the `for device in devices` loop
    result,          \* the value returned, None until the call returns
    requests,        \* history: the params of every make_api_request issued
    observed,        \* history: search name -> highest Match Scorer value of a scanned device
    top,             \* history: search name -> the first scanned device of the highest
                     \*          recorded score, with that score
    updates,         \* history: search name -> how often its search result was rewritten
    search_terms,    \* SpecScore: first argument of _fuzzy_match_score
    device_name,     \* SpecScore: second argument of _fuzzy_match_score
    score,           \* SpecScore: the value _fuzzy_match_score returned, None before
    credits,         \* SpecScore history: the amount added to score for each search word
    listing,         \* SpecTwice: the responses of the Device API, by page index
    first            \* SpecTwice history: what the first of two calls returned and
                     \*                    requested, None until it has returned

vars == << pc, device_names, return_single, search_results, page, response, devices,
           device_idx, result, requests, observed, top, updates, search_terms,
           device_name, score, credits, listing, first >>

resolver_vars == << pc, device_names, return_single, search_results, page, response,
                    devices, device_idx, result, requests, observed, top, updates >>

scorer_vars == << search_terms, device_name, score, credits >>

replay_vars == << listing, first >>

\* Python's None
None == [ none |-> TRUE ]

per_page == 100

min_score_threshold == Rat(3, 10)

\* the search strings of the model:
\*   "B"       equal to the name "b" up to case, scores 1.0 against "B_1"
\*   "a"       only a common word: no search word is left
\*   "bb 1 1"  three search words, scores 0.7/3 against the name "b"
QuerySet == { << "B" >>, << "a" >>, << "b", "b", " ", "1", " ", "1" >> }

\* the device names of the model
NameSet == { << "b" >>, << "B", "_", "1" >>, << "a" >> }

\* the arguments of find_device_by_name: one str, or a list of str
Arguments ==
    { [ type |-> "str", value |-> q ] : q \in QuerySet }
    \cup { [ type |-> "list", value |-> l ] :
             l \in UNION { [1..k -> QuerySet] : k \in 0..MaxQueries } }

\* the k-th device of page p of the listing, named n; a device may have no name
Device(p, k, n) == [ id |-> (p - 1) * per_page + k, name |-> n ]
Unnamed(p, k) == [ id |-> (p - 1) * per_page + k ]

\* the pages of at most MaxPageLen devices the Device API can return for page p
Pages(p) ==
    UNION { { [ k \in 1..len |-> IF names[k] = << >> THEN Unnamed(p, k)
                                                     ELSE Device(p, k, names[k][1]) ] :
                names \in [1..len -> { << >> } \cup { << n >> : n \in NameSet }] } :
            len \in 0..MaxPageLen }

\* what make_api_request("get", "/v1/devices", params) can return for page p:
\* a page of devices (empty at the end of the listing), or an error
Responses(p) ==
    { [ devices |-> d ] : d \in Pages(p) }
    \cup { [ error |-> "HTTP error: 401" ], [ error |-> "Request failed: timeout" ] }

\* mutant: the error field of a response is never looked at
IsErrorIgnored(resp) == FALSE

\* `"error" in response`
IsError(resp) == "error" \in DOMAIN resp

\* dict.get(key, default)
Get(dict, key, default) == IF key \in DOMAIN dict THEN dict[key] ELSE default

\* mutant: a search name that reached 1.0 is not skipped
MatchDeviceNoSkip(results, device, search_name) ==
    LET device_actual_name == Get(device, "name", << >>)
    IN  IF Lower(device_actual_name) = Lower(search_name)
        THEN [ results EXCEPT ![search_name] =
                   [ best_match |-> device, best_score |-> One, found |-> TRUE ] ]
        ELSE LET s == fuzzy_match_score(search_name, device_actual_name)
             IN  IF RatGT(s, results[search_name].best_score)
                    /\ RatGE(s, min_score_threshold)
                 THEN [ results EXCEPT ![search_name] =
                            [ best_match |-> device, best_score |-> s, found |-> TRUE ] ]
                 ELSE results

\* mutant: the last score is kept, not the best one
MatchDeviceLastWins(results, device, search_name) ==
    LET device_actual_name == Get(device, "name", << >>)
    IN  IF results[search_name].found /\ results[search_name].best_score = One
        THEN results
        ELSE IF Lower(device_actual_name) = Lower(search_name)
        THEN [ results EXCEPT ![search_name] =
                   [ best_match |-> device, best_score |-> One, found |-> TRUE ] ]
        ELSE LET s == fuzzy_match_score(search_name, device_actual_name)
             IN  IF RatGE(s, min_score_threshold)
                 THEN [ results EXCEPT ![search_name] =
                            [ best_match |-> device, best_score |-> s, found |-> TRUE ] ]
                 ELSE results

\* mutant: an equal score replaces the match (>= for >)
MatchDeviceTieReplaces(results, device, search_name) ==
    LET device_actual_name == Get(device, "name", << >>)
    IN  IF results[search_name].found /\ results[search_name].best_score = One
        THEN results
        ELSE IF Lower(device_actual_name) = Lower(search_name)
        THEN [ results EXCEPT ![search_name] =
                   [ best_match |-> device, best_score |-> One, found |-> TRUE ] ]
        ELSE LET s == fuzzy_match_score(search_name, device_actual_name)
             IN  IF RatGE(s, results[search_name].best_score)
                    /\ RatGE(s, min_score_threshold)
                 THEN [ results EXCEPT ![search_name] =
                            [ best_match |-> device, best_score |-> s, found |-> TRUE ] ]
                 ELSE results

\* mutant: the acceptance threshold is not tested when a score is recorded
MatchDeviceNoThreshold(results, device, search_name) ==
    LET device_actual_name == Get(device, "name", << >>)
    IN  IF results[search_name].found /\ results[search_name].best_score = One
        THEN results
        ELSE IF Lower(device_actual_name) = Lower(search_name)
        THEN [ results EXCEPT ![search_name] =
                   [ best_match |-> device, best_score |-> One, found |-> TRUE ] ]
        ELSE LET s == fuzzy_match_score(search_name, device_actual_name)
             IN  IF RatGT(s, results[search_name].best_score)
                 THEN [ results EXCEPT ![search_name] =
                            [ best_match |-> device, best_score |-> s, found |-> TRUE ] ]
                 ELSE results

\* the body of `for search_name in device_names` for one device and one search name
MatchDevice(results, device, search_name) ==
    LET device_actual_name == Get(device, "name", << >>)
    IN  IF results[search_name].found /\ results[search_name].best_score = One
        THEN results
        ELSE IF Lower(device_actual_name) = Lower(search_name)
        THEN [ results EXCEPT ![search_name] =
                   [ best_match |-> device, best_score |-> One, found |-> TRUE ] ]
        ELSE LET s == fuzzy_match_score(search_name, device_actual_name)
             IN  IF RatGT(s, results[search_name].best_score)
                    /\ RatGE(s, min_score_threshold)
                 THEN [ results EXCEPT ![search_name] =
                            [ best_match |-> device, best_score |-> s, found |-> TRUE ] ]
                 ELSE results

\* the search results after the first k search names were tried on device
RECURSIVE ScanNames(_, _, _, _)
ScanNames(results, device, names, k) ==
    IF k = 0 THEN results
    ELSE MatchDevice(ScanNames(results, device, names, k - 1), device, names[k])

\* the condition under which a search name is reported as found
Accepted(r) == r.found /\ RatGE(r.best_score, min_score_threshold)

\* mutant: every score of at least 0.7 is labelled "exact"
MatchTypeLoose(r) == IF RatGE(r.best_score, Rat(7, 10)) THEN "exact" ELSE "fuzzy"

\* "exact" if result["best_score"] == 1.0 else "fuzzy"
MatchType(r) == IF r.best_score = One THEN "exact" ELSE "fuzzy"

\* the fields every success record takes from the search result r
\* (online and last_heard are read from best_match the same way as name)
SuccessFields(r) ==
    [ success |-> TRUE,
      device |-> r.best_match,
      node_id |-> Get(r.best_match, "id", None),
      name |-> Get(r.best_match, "name", None),
      match_score |-> r.best_score,
      match_type |-> MatchType(r) ]

\* the value returned for a str argument
SingleResult(names, results, pg) ==
    LET search_name == names[1]
        r == results[search_name]
    IN  IF Accepted(r)
        THEN SuccessFields(r)
        ELSE [ error |-> << "No device found matching", search_name, "searched",
                            pg - 1, "pages" >>,
               searched_pages |-> pg - 1,
               best_score |-> r.best_score ]

\* the entry of the devices list for one search name of a list argument
Entry(search_name, r) ==
    IF Accepted(r)
    THEN [ search_name |-> search_name ] @@ SuccessFields(r)
    ELSE [ search_name |-> search_name,
           success |-> FALSE,
           error |-> << "No device found matching", search_name >>,
           best_score |-> r.best_score ]

\* devices_found (want = TRUE) or devices_not_found (want = FALSE) after the
\* loop over the first k search names
RECURSIVE Partition(_, _, _, _)
Partition(names, results, want, k) ==
    IF k = 0 THEN << >>
    ELSE LET rest == Partition(names, results, want, k - 1)
             r == results[names[k]]
         IN  IF Accepted(r) = want
             THEN Append(rest, Entry(names[k], r))
             ELSE rest

\* mutant: the not-found entries are put before the found entries
MultiResultNotFoundFirst(names, results, pg) ==
    LET devices_found == Partition(names, results, TRUE, Len(names))
        devices_not_found == Partition(names, results, FALSE, Len(names))
    IN  [ success |-> Len(devices_found) > 0,
          total_searched |-> Len(names),
          found_count |-> Len(devices_found),
          not_found_count |-> Len(devices_not_found),
          searched_pages |-> pg - 1,
          devices |-> devices_not_found \o devices_found ]

\* the value returned for a list argument
MultiResult(names, results, pg) ==
    LET devices_found == Partition(names, results, TRUE, Len(names))
        devices_not_found == Partition(names, results, FALSE, Len(names))
    IN  [ success |-> Len(devices_found) > 0,
          total_searched |-> Len(names),
          found_count |-> Len(devices_found),
          not_found_count |-> Len(devices_not_found),
          searched_pages |-> pg - 1,
          devices |-> devices_found \o devices_not_found ]

\* mutant: the page index itself is reported as the number of pages searched
ProcessResultsPageIndex(names, single, results, pg) ==
    IF single THEN SingleResult(names, results, pg + 1)
              ELSE MultiResult(names, results, pg + 1)

\* "Process results": the value returned once the while loop is left
ProcessResults(names, single, results, pg) ==
    IF single THEN SingleResult(names, results, pg)
              ELSE MultiResult(names, results, pg)

RatMax(x, y) == IF RatGT(y, x) THEN y ELSE x

\* x and y are the same string up to letter case
SameUpToCase(x, y) ==
    /\ Len(x) = Len(y)
    /\ \A i \in 1..Len(x) : LowerChar(x[i]) = LowerChar(y[i])

\* the score a device is recorded with for a search name: 1.0 when its name
\* equals the search name up to case, the Match Scorer's value otherwise
RecordedScore(search_name, device) ==
    IF SameUpToCase(search_name, Get(device, "name", << >>))
    THEN One
    ELSE fuzzy_match_score(search_name, Get(device, "name", << >>))

\* mutant: the page index is left where it stands
CallKeepsPage(arg) ==
    /\ pc = "idle"
    /\ device_names' = IF arg.type = "str" THEN << arg.value >> ELSE arg.value
    /\ return_single' = (arg.type = "str")
    /\ search_results' =
           [ name \in Range(device_names') |->
               [ best_match |-> None, best_score |-> Zero, found |-> FALSE ] ]
    /\ page' = page
    /\ observed' = [ name \in Range(device_names') |-> Zero ]
    /\ top' = [ name \in Range(device_names') |-> [ score |-> Zero, device |-> None ] ]
    /\ updates' = [ name \in Range(device_names') |-> 0 ]
    /\ pc' = "fetch"
    /\ UNCHANGED << response, devices, device_idx, result, requests, scorer_vars, replay_vars >>

\* the call: the argument is normalised to a list and the per-name state is set up
Call(arg) ==
    /\ pc = "idle"
    /\ device_names' = IF arg.type = "str" THEN << arg.value >> ELSE arg.value
    /\ return_single' = (arg.type = "str")
    /\ search_results' =
           [ name \in Range(device_names') |->
               [ best_match |-> None, best_score |-> Zero, found |-> FALSE ] ]
    /\ page' = 1
    /\ observed' = [ name \in Range(device_names') |-> Zero ]
    /\ top' = [ name \in Range(device_names') |-> [ score |-> Zero, device |-> None ] ]
    /\ updates' = [ name \in Range(device_names') |-> 0 ]
    /\ pc' = "fetch"
    /\ UNCHANGED << response, devices, device_idx, result, requests, scorer_vars, replay_vars >>

\* one pass through the head of the while loop: the request for the page is
\* issued and answered by resp; an error is returned as it is, an empty page
\* ends the scan
Fetch(resp) ==
    /\ pc = "fetch"
    /\ requests' = Append(requests, [ page |-> page, per_page |-> per_page ])
    /\ response' = resp
    /\ IF IsError(resp)
       THEN /\ result' = resp
            /\ pc' = "done"
            /\ UNCHANGED << devices, device_idx >>
       ELSE /\ devices' = Get(resp, "devices", << >>)
            /\ IF devices' = << >>
               THEN /\ result' = ProcessResults(device_names, return_single,
                                                search_results, page)
                    /\ pc' = "done"
                    /\ UNCHANGED device_idx
               ELSE /\ pc' = "scan"
                    /\ device_idx' = 1
                    /\ UNCHANGED result
    /\ UNCHANGED << device_names, return_single, search_results, page, observed,
                    top, updates, scorer_vars, replay_vars >>

\* one pass through `for device in devices`: the device is tried on every
\* search name
Scan ==
    /\ pc = "scan"
    /\ device_idx <= Len(devices)
    /\ search_results' = ScanNames(search_results, devices[device_idx], device_names,
                                   Len(device_names))
    /\ observed' =
           [ name \in DOMAIN observed |->
               RatMax(observed[name],
                      fuzzy_match_score(name, Get(devices[device_idx], "name", << >>))) ]
    /\ top' =
           [ name \in DOMAIN top |->
               IF RatGT(RecordedScore(name, devices[device_idx]), top[name].score)
               THEN [ score |-> RecordedScore(name, devices[device_idx]),
                      device |-> devices[device_idx] ]
               ELSE top[name] ]
    /\ updates' =
           [ name \in DOMAIN updates |->
               IF search_results'[name] # search_results[name]
               THEN updates[name] + 1
               ELSE updates[name] ]
    /\ device_idx' = device_idx + 1
    /\ UNCHANGED << pc, device_names, return_single, page, response, devices, result,
                    requests, scorer_vars, replay_vars >>

\* mutant: the safety check lets one more page through (>= read as > of the next index)
NextPageLate ==
    /\ pc = "scan"
    /\ device_idx > Len(devices)
    /\ page' = page + 1
    /\ IF page' > PageCeiling + 1
       THEN /\ result' = ProcessResults(device_names, return_single, search_results,
                                        page')
            /\ pc' = "done"
       ELSE /\ pc' = "fetch"
            /\ UNCHANGED result
    /\ UNCHANGED << device_names, return_single, search_results, response, devices,
                    device_idx, requests, observed, top, updates, scorer_vars, replay_vars >>

\* mutant: the page index is advanced by two
NextPageSkip ==
    /\ pc = "scan"
    /\ device_idx > Len(devices)
    /\ page' = page + 2
    /\ IF page' > PageCeiling
       THEN /\ result' = ProcessResults(device_names, return_single, search_results,
                                        page')
            /\ pc' = "done"
       ELSE /\ pc' = "fetch"
            /\ UNCHANGED result
    /\ UNCHANGED << device_names, return_single, search_results, response, devices,
                    device_idx, requests, observed, top, updates, scorer_vars, replay_vars >>

\* mutant: the scan is left as soon as every search name holds a score of 1.0
NextPageStopsWhenAllFound ==
    /\ pc = "scan"
    /\ device_idx > Len(devices)
    /\ page' = page + 1
    /\ IF page' > PageCeiling
          \/ \A q \in DOMAIN search_results : search_results[q].best_score = One
       THEN /\ result' = ProcessResults(device_names, return_single, search_results,
                                        page')
            /\ pc' = "done"
       ELSE /\ pc' = "fetch"
            /\ UNCHANGED result
    /\ UNCHANGED << device_names, return_single, search_results, response, devices,
                    device_idx, requests, observed, top, updates, scorer_vars, replay_vars >>

\* the end of the page: page += 1 and the safety check on the page count
NextPage ==
    /\ pc = "scan"
    /\ device_idx > Len(devices)
    /\ page' = page + 1
    /\ IF page' > PageCeiling
       THEN /\ result' = ProcessResults(device_names, return_single, search_results,
                                        page')
            /\ pc' = "done"
       ELSE /\ pc' = "fetch"
            /\ UNCHANGED result
    /\ UNCHANGED << device_names, return_single, search_results, response, devices,
                    device_idx, requests, observed, top, updates, scorer_vars, replay_vars >>

Init ==
    /\ pc = "idle"
    /\ device_names = << >>
    /\ return_single = FALSE
    /\ search_results = << >>
    /\ page = 1
    /\ response = None
    /\ devices = << >>
    /\ device_idx = 1
    /\ result = None
    /\ requests = << >>
    /\ observed = << >>
    /\ top = << >>
    /\ updates = << >>
    /\ search_terms = << >>
    /\ device_name = << >>
    /\ score = None
    /\ credits = << >>
    /\ listing = << >>
    /\ first = None

Next ==
    \/ \E arg \in Arguments : Call(arg)
    \/ \E resp \in Responses(page) : Fetch(resp)
    \/ Scan
    \/ NextPage

Spec == Init /\ [][Next]_vars

\* one turn of the device loop, told by its counter: Scan is the only action
\* of Next that advances device_idx, and it is enabled whenever a device of
\* the page is left to scan
ScanProgress ==
    /\ pc = "scan"
    /\ device_idx <= Len(devices)
    /\ device_idx' = device_idx + 1

\* the resolver is resumed whenever its request has returned, and runs on up
\* to its next request or to its return
FairSpec ==
    /\ Spec
    /\ WF_vars(\E resp \in Responses(page) : Fetch(resp))
    /\ WF_device_idx(ScanProgress)
    /\ WF_vars(NextPage)

(***************************************************************************)
(* SpecTwice: find_device_by_name called twice with the same str argument  *)
(* while the listing of the Device API stays as it is.                     *)
(***************************************************************************)
\* the listings from page p on: a listing ends with its first error or empty
\* page, or with the page at the ceiling
RECURSIVE ListingsFrom(_)
ListingsFrom(p) ==
    LET last == { r \in Responses(p) : IsError(r) \/ Get(r, "devices", << >>) = << >> }
        more == Responses(p) \ last
    IN  { << r >> : r \in last }
        \cup IF p = PageCeiling
             THEN { << r >> : r \in more }
             ELSE { << r >> \o l : r \in more, l \in ListingsFrom(p + 1) }

InitTwice ==
    /\ pc = "idle"
    /\ device_names = << >>
    /\ return_single = FALSE
    /\ search_results = << >>
    /\ page = 1
    /\ response = None
    /\ devices = << >>
    /\ device_idx = 1
    /\ result = None
    /\ requests = << >>
    /\ observed = << >>
    /\ top = << >>
    /\ updates = << >>
    /\ search_terms = << >>
    /\ device_name = << >>
    /\ score = None
    /\ credits = << >>
    /\ listing \in ListingsFrom(1)
    /\ first = None

\* the call with one str; the second call is made with the str of the first
CallTwice(arg) ==
    /\ arg.type = "str"
    /\ first # None => arg.value = device_names[1]
    /\ Call(arg)

\* the request for a page is answered from the listing
FetchListed ==
    /\ page \in DOMAIN listing
    /\ Fetch(listing[page])

\* the first call has returned: its frame is gone, and what is left in the
\* variables of the model is what a second call could wrongly pick up
Again ==
    /\ pc = "done"
    /\ first = None
    /\ first' = [ result |-> result, requests |-> requests ]
    /\ result' = None
    /\ pc' = "idle"
    /\ UNCHANGED << device_names, return_single, search_results, page, response, devices,
                    device_idx, requests, observed, top, updates, scorer_vars, listing >>

NextTwice ==
    \/ \E arg \in Arguments : CallTwice(arg)
    \/ FetchListed
    \/ Scan
    \/ NextPage
    \/ Again

SpecTwice == InitTwice /\ [][NextTwice]_vars

(***************************************************************************)
(* SpecScore: the Match Scorer applied to every pair of strings within the *)
(* bounds.                                                                 *)
(***************************************************************************)
InitScore ==
    /\ pc = "score"
    /\ device_names = << >>
    /\ return_single = FALSE
    /\ search_results = << >>
    /\ page = 1
    /\ response = None
    /\ devices = << >>
    /\ device_idx = 1
    /\ result = None
    /\ requests = << >>
    /\ observed = << >>
    /\ top = << >>
    /\ updates = << >>
    /\ search_terms \in Strings(MaxQueryLen)
    /\ device_name \in Strings(MaxNameLen)
    /\ score = None
    /\ credits = << >>
    /\ listing = << >>
    /\ first = None

CallScore ==
    /\ pc = "score"
    /\ score = None
    /\ score' = fuzzy_match_score(search_terms, device_name)
    /\ credits' = word_credits(search_terms, device_name)
    /\ UNCHANGED << resolver_vars, search_terms, device_name, replay_vars >>

NextScore == CallScore

SpecScore == InitScore /\ [][NextScore]_vars

(***************************************************************************)
(* Vocabulary of the properties.                                           *)
(***************************************************************************)
\* no word of q is left once the common words are dropped
ZeroToken(q) == Range(FindAll(Lower(q), WordChars)) \subseteq common_words

\* the call returned after the scan ended on an empty page or at the ceiling
Completed == pc = "done" /\ "error" \notin DOMAIN response

\* the call returned the error response of a page fetch
Aborted == pc = "done" /\ "error" \in DOMAIN response

\* the records of a completed call, each with the search name it answers
Records ==
    IF return_single
    THEN { << device_names[1], result >> }
    ELSE { << device_names[i], result.devices[j] >> :
             << i, j >> \in { ij \in (DOMAIN device_names) \X (DOMAIN result.devices) :
                                result.devices[ij[2]].search_name = device_names[ij[1]] } }

IsSuccess(rec) == "success" \in DOMAIN rec /\ rec.success

\* C1: when the fetch of a page returns a response with an error field, the
\* call returns exactly that response, that fetch is the last request issued
\* (one request per page index up to it), and the value returned carries
\* nothing but the error, whatever match was tracked before.
C1_ErrorReturnedVerbatim ==
    "error" \in DOMAIN response =>
        /\ pc = "done"
        /\ result = response
        /\ DOMAIN result = { "error" }
        /\ Len(requests) = page
        /\ requests[Len(requests)].page = page

\* C1 witness: page 2 answered with an error after page 1 gave a match
C1_Witness ==
    /\ Aborted
    /\ page >= 2
    /\ \E q \in DOMAIN search_results : search_results[q].found

\* C2 as claimed: a success record is labelled "exact" only when the search
\* name equals the matched device's name up to case, and "fuzzy" otherwise.
C2_ExactOnlyOnNameEquality ==
    Completed =>
        \A qr \in Records :
            IsSuccess(qr[2]) =>
                (qr[2].match_type = "exact"
                    => SameUpToCase(qr[1], Get(qr[2].device, "name", << >>)))

\* C3: a record is a success record exactly when the search name's final
\* state has found = true and best_score >= 0.3; a success record carries
\* that state's score and device and is labelled "exact" exactly when the
\* score is 1.0, "fuzzy" otherwise.
C3_ExactIffScoreOne ==
    Completed =>
        \A qr \in Records :
            LET r == search_results[qr[1]]
                rec == qr[2]
            IN  /\ IsSuccess(rec)
                      <=> (r.found /\ RatGE(r.best_score, Rat(3, 10)))
                /\ IsSuccess(rec) =>
                      /\ rec.match_score = r.best_score
                      /\ rec.device = r.best_match
                      /\ rec.match_type \in { "exact", "fuzzy" }
                      /\ rec.match_type = "exact" <=> rec.match_score = One

\* C3 witness: a list call answered with an "exact" and a "fuzzy" success
\* record
C3_Witness ==
    /\ Completed
    /\ ~return_single
    /\ \E qr \in Records : IsSuccess(qr[2]) /\ qr[2].match_type = "exact"
    /\ \E qr \in Records : IsSuccess(qr[2]) /\ qr[2].match_type = "fuzzy"

\* C4 as claimed: the scorer returns 1.0 whenever the two strings are equal
\* up to case, whatever the strings.
C4_SameNameScoresOne ==
    (score # None /\ SameUpToCase(search_terms, device_name)) => score = One

\* C4 amended: for two strings that are equal up to case the scorer returns
\* 1.0 when the search string keeps at least one word that is not a common
\* word, and 0.0 when it keeps none.
C4_SameNameWithTokenScoresOne ==
    (score # None /\ SameUpToCase(search_terms, device_name))
    => score = IF ZeroToken(search_terms) THEN Zero ELSE One

\* C4 witness: two strings that differ in case only, scored 1.0
C4_Witness ==
    /\ score = One
    /\ SameUpToCase(search_terms, device_name)
    /\ search_terms # device_name

\* C5 as claimed: the scorer returns 0.0 for the empty device name.
C5_EmptyNameScoresZero ==
    (score # None /\ device_name = << >>) => score = Zero

\* C6 as claimed: searched_pages is the number of page fetches issued.
C6_SearchedPagesIsFetchCount ==
    (Completed /\ "searched_pages" \in DOMAIN result)
    => result.searched_pages = Len(requests)

\* C6 amended: searched_pages is the number of non-empty pages fetched: one
\* less than the number of fetches when the scan ends on an empty page, and
\* the number of fetches when it ends at the page ceiling.
C6_SearchedPagesIsNonEmptyPages ==
    (Completed /\ "searched_pages" \in DOMAIN result)
    => /\ devices = << >> => result.searched_pages = Len(requests) - 1
       /\ devices # << >> => /\ result.searched_pages = Len(requests)
                             /\ Len(requests) = PageCeiling

\* C6 witness: a scan of two pages of devices ended by an empty third page
C6_Witness ==
    /\ Completed
    /\ "searched_pages" \in DOMAIN result
    /\ devices = << >>
    /\ Len(requests) = 3
    /\ result.searched_pages = 2

\* C7 as claimed: a not-found record reports the highest Match Scorer value
\* any scanned device obtained for the search name.
C7_BestScoreIsHighestObserved ==
    Completed =>
        \A qr \in Records :
            ~IsSuccess(qr[2]) => qr[2].best_score = observed[qr[1]]

\* C8: a completed list call of n search names reports total_searched = n
\* and found_count + not_found_count = n over a devices list of n entries,
\* the found entries before the not-found ones; each entry is tagged with the
\* search name it answers, and inside each group the entries keep the order
\* of their search names in the argument (a repeated name has one entry per
\* occurrence).
C8_AggregateShape ==
    (Completed /\ ~return_single) =>
        LET n == Len(device_names)
            L == result.devices
        IN  /\ result.total_searched = n
            /\ result.found_count + result.not_found_count = n
            /\ Len(L) = n
            /\ result.found_count = Cardinality({ j \in DOMAIN L : L[j].success })
            /\ result.not_found_count = Cardinality({ j \in DOMAIN L : ~L[j].success })
            /\ \A i, j \in DOMAIN L : (i < j /\ L[j].success) => L[i].success
            /\ \E perm \in [1..n -> 1..n] :
                   /\ \A i, j \in 1..n : perm[i] = perm[j] => i = j
                   /\ \A j \in 1..n :
                          /\ L[j].search_name = device_names[perm[j]]
                          /\ L[j].success = search_results[device_names[perm[j]]].found
                   /\ \A i, j \in 1..n :
                          (i < j /\ L[i].success = L[j].success) => perm[i] < perm[j]

\* C8 witness: the first search name of the list is not found and the second
\* is, so the entries are not in the order of the argument
C8_Witness ==
    /\ Completed
    /\ ~return_single
    /\ Len(device_names) = 2
    /\ result.found_count = 1
    /\ result.not_found_count = 1
    /\ result.devices[1].search_name = device_names[2]
    /\ result.devices[1].search_name # device_names[1]

\* C9 as claimed: a search name that keeps no word after the common words
\* are dropped never ends as a success record.
C9_ZeroTokenNeverFound ==
    Completed =>
        \A qr \in Records : ZeroToken(qr[1]) => ~IsSuccess(qr[2])

\* C9 amended: for a search name that keeps no word after the common words
\* are dropped, the Match Scorer gives 0.0 for every scanned device, and the
\* name ends as not found unless a scanned device's name equals it up to
\* case: a success record for it is that device, with score 1.0.
C9_ZeroTokenFoundOnlyByNameEquality ==
    Completed =>
        \A qr \in Records :
            ZeroToken(qr[1]) =>
                /\ observed[qr[1]] = Zero
                /\ IsSuccess(qr[2]) =>
                      /\ SameUpToCase(qr[1], Get(qr[2].device, "name", << >>))
                      /\ qr[2].match_score = One

\* C9 witness: such a search name, scanned against at least one page of
\* devices, ends as not found
C9_Witness ==
    /\ Completed
    /\ Len(requests) >= 2
    /\ \E qr \in Records : ZeroToken(qr[1]) /\ ~IsSuccess(qr[2])

\* C10: for a search string that keeps no word after lower-casing, splitting
\* into words and dropping the common words, the scorer returns 0.0 for
\* every device name, the search string itself included.
C10_ZeroTokenScoresZero ==
    (score # None /\ ZeroToken(search_terms)) => score = Zero

\* C10 witness: a non-empty search string of common words only, scored 0.0
\* against itself
C10_Witness ==
    /\ score = Zero
    /\ search_terms # << >>
    /\ ZeroToken(search_terms)
    /\ device_name = search_terms

\* the device the scan has just tried on every search name
LastScanned == devices[device_idx - 1]

\* a device of the current page has just been tried
JustScanned == pc = "scan" /\ device_idx > 1

\* C11: the recorded best_score of a search name never decreases in a step
\* of the scan, whichever device is tried and whichever update is made.
C11_BestScoreMonotone ==
    [][ \A q \in DOMAIN search_results :
            q \in DOMAIN search_results'
                => RatGE(search_results'[q].best_score, search_results[q].best_score)
      ]_vars

\* C11 witness: a search name whose best_score was raised twice, the second
\* time by a device of a later page
C11_Witness ==
    /\ JustScanned
    /\ page >= 2
    /\ \E q \in DOMAIN search_results :
           /\ updates[q] >= 2
           /\ search_results[q].best_match = LastScanned

\* C15: once the recorded best_score of a search name is 1.0, no step
\* changes its best_match, best_score or found flag.
C15_ScoreOneIsFinal ==
    [][ \A q \in DOMAIN search_results :
            search_results[q].best_score = One
                => (q \in DOMAIN search_results'
                    /\ search_results'[q] = search_results[q])
      ]_vars

\* C15 witness: a search name holds 1.0 from the scorer on a device of
\* another name, and a later device whose name equals the search name up to
\* case has just been tried and left the match unchanged
C15_Witness ==
    /\ JustScanned
    /\ \E q \in DOMAIN search_results :
           /\ search_results[q].best_score = One
           /\ ~SameUpToCase(q, Get(search_results[q].best_match, "name", << >>))
           /\ SameUpToCase(q, Get(LastScanned, "name", << >>))
           /\ search_results[q].best_match # LastScanned

C17_MatchStateInvariant ==
    \A q \in DOMAIN search_results :
        LET r == search_results[q]
        IN  /\ r.found <=> RatGE(r.best_score, Rat(3, 10))
            /\ r.found <=> r.best_match # None
            /\ r.best_match # None => "id" \in DOMAIN r.best_match
            /\ r.best_score = Zero \/ RatGE(r.best_score, Rat(3, 10))
            /\ requests = << >>
                   => r = [ best_match |-> None, best_score |-> Zero, found |-> FALSE ]

\* C17 witness: a scanned device scored above 0.0 and below 0.3 for a search
\* name, which is still not found, with no match and best_score 0.0
C17_Witness ==
    \E q \in DOMAIN search_results :
        /\ RatGT(observed[q], Zero)
        /\ ~RatGE(observed[q], Rat(3, 10))
        /\ ~search_results[q].found
        /\ search_results[q].best_score = Zero

\* C12: a call, once made, returns; no page beyond the page ceiling is ever
\* requested; a call that returns without an upstream error has stopped on
\* the first empty page or after the page at the ceiling, and every search
\* name that was not accepted is answered by a not-found record.
C12_Terminates ==
    /\ (pc = "fetch") ~> (pc = "done")
    /\ [](\A i \in DOMAIN requests : requests[i].page <= PageCeiling)
    /\ [](Completed =>
            /\ \/ devices = << >> /\ Len(requests) = page
               \/ devices # << >> /\ Len(requests) = PageCeiling /\ page = PageCeiling + 1
            /\ \A qr \in Records :
                   ~search_results[qr[1]].found => ~IsSuccess(qr[2]))

\* C12 witness: a call has returned after the page at the ceiling, with a
\* search name that was never accepted
C12_Witness ==
    /\ Completed
    /\ page = PageCeiling + 1
    /\ devices # << >>
    /\ \E qr \in Records : ~search_results[qr[1]].found /\ ~IsSuccess(qr[2])

\* C18: the requests are for the pages 1, 2, 3, ... in this order, one
\* request per page index, each with page size 100; when the next page is
\* about to be requested, the response to the last request has been received
\* and every device of it has been tried on, and scored for, every search name.
C18_PagesInOrder ==
    /\ \A i \in DOMAIN requests : requests[i] = [ page |-> i, per_page |-> per_page ]
    /\ pc = "fetch" => Len(requests) = page - 1
    /\ pc = "scan" => Len(requests) = page
    /\ (pc = "fetch" /\ requests # << >>) =>
           /\ "devices" \in DOMAIN response
           /\ devices = response.devices
           /\ devices # << >>
           /\ device_idx = Len(devices) + 1
           /\ \A q \in DOMAIN observed, k \in DOMAIN devices :
                  RatGE(top[q].score, RecordedScore(q, devices[k]))

\* C18 witness: the third page has been requested and its devices are being
\* tried
C18_Witness ==
    /\ pc = "scan"
    /\ Len(requests) = 3
    /\ requests[3].page = 3
    /\ device_names # << >>

\* C19: a call returns only on an error response, on an empty page or past
\* the page ceiling, whatever the search names and their scores: after a page
\* of devices below the ceiling the next page is requested, also when every
\* search name already holds 1.0 and when there is no search name.
C19_ScanEndsOnlyOnErrorEmptyOrCeiling ==
    /\ pc = "done" =>
           \/ "error" \in DOMAIN response /\ Len(requests) = page
           \/ "error" \notin DOMAIN response /\ devices = << >> /\ Len(requests) = page
           \/ "error" \notin DOMAIN response /\ devices # << >>
              /\ Len(requests) = PageCeiling /\ page = PageCeiling + 1
    /\ pc = "scan" => ("error" \notin DOMAIN response /\ devices # << >>)
    /\ (pc = "fetch" /\ requests # << >>) =>
           ("error" \notin DOMAIN response /\ devices # << >> /\ page <= PageCeiling)

\* C19 witness: every search name got 1.0 from a device of page 1, and page 2
\* was requested all the same
C19_Witness ==
    /\ Len(requests) >= 2
    /\ device_names # << >>
    /\ \A q \in DOMAIN search_results :
           /\ search_results[q].best_score = One
           /\ search_results[q].best_match.id <= per_page

\* C14: the credit of a search word is 1.0 if it is a substring of the
\* lower-cased name, else 0.7 if it is a substring or a superstring of a part
\* of the name, else 0.9 if it is numeric and a digit run of the name, else 0;
\* so a numeric search word that is a digit run of the name earns 0.9 unless
\* it is a substring of the name, and then 1.0.
C14_NumericTokenCredit ==
    score # None =>
        LET name_lower == Lower(device_name)
            words == search_words(Lower(search_terms))
        IN  /\ Len(credits) = Len(words)
            /\ \A k \in DOMAIN words :
                   LET D == words[k]
                       in_name == Contains(D, name_lower)
                       in_part == \E part \in Range(Split(name_lower, "_")) :
                                      Contains(D, part) \/ Contains(part, D)
                       digit_run == IsDigit(D) /\ D \in Range(FindAll(name_lower, Digits))
                   IN  /\ digit_run =>
                              credits[k] = IF in_name THEN One ELSE Rat(9, 10)
                       /\ credits[k] = IF in_name THEN One
                                       ELSE IF in_part THEN Rat(7, 10)
                                       ELSE IF digit_run THEN Rat(9, 10)
                                       ELSE Zero

\* a numeric search word, next to another search word, that is a digit run of
\* a longer name has been given its credit
C14_Witness ==
    /\ score # None
    /\ Len(credits) = 2
    /\ Len(device_name) = 2
    /\ \E k \in DOMAIN credits :
           LET D == search_words(Lower(search_terms))[k]
           IN  /\ IsDigit(D)
               /\ D \in Range(FindAll(Lower(device_name), Digits))
               /\ credits[k] = One
    /\ \E k \in DOMAIN credits : credits[k] = Zero

\* C13: a second call with the same str, answered from the same listing,
\* starts at page 1 with a search result that holds nothing, issues the
\* requests the first call issued and returns what the first call returned.
C13_SecondCallSameResult ==
    first # None =>
        /\ pc = "fetch" /\ requests = first.requests =>
               /\ page = 1
               /\ \A name \in DOMAIN search_results :
                      search_results[name] =
                          [ best_match |-> None, best_score |-> Zero, found |-> FALSE ]
        /\ pc = "done" =>
               /\ result = first.result
               /\ requests = first.requests \o first.requests

\* the second call has returned a device found on the second page
C13_Witness ==
    /\ first # None
    /\ pc = "done"
    /\ Len(first.requests) >= 2
    /\ IsSuccess(result)
    /\ result.device.id > per_page

====
